---- MODULE Spec2Model ----
(***************************************************************************)
(* MemeCoinTrader (meme_coin_trader.py): a client that queries prices and  *)
(* builds, signs and submits swap and approval transactions against a DEX  *)
(* router.  The session is built by __init__; every public method is a     *)
(* sequence of blocking chain-client calls, modelled one call per step so  *)
(* that several invocations on the same account can interleave.            *)
(***************************************************************************)
EXTENDS Integers, Sequences, FiniteSets, TLC

VARIABLES session, blockTime, gasPrice, txCount, allowance, frame, calls

vars == <<session, blockTime, gasPrice, txCount, allowance, frame, calls>>

(* ------------------------------- bounds -------------------------------- *)
MaxTime == 1          \* the latest block timestamp is in 0..MaxTime
MaxCalls == 2         \* invocations of public methods per run
NumThreads == 2       \* concurrent callers in SpecConc

(* --------------------------- optional values --------------------------- *)
None == <<>>
Some(x) == <<x>>

(* ------------------- unbounded integers (Python int) ------------------- *)
\* little-endian limbs in base 10000, no leading zero limb; 0 is <<>>
BigBase == 100 * 100

RECURSIVE BigOfNat(_)
BigOfNat(n) == IF n = 0 THEN <<>> ELSE <<n % BigBase>> \o BigOfNat(n \div BigBase)

RECURSIVE BigMulCarry(_, _, _)
BigMulCarry(a, k, carry) ==
    IF a = <<>>
    THEN BigOfNat(carry)
    ELSE LET p == Head(a) * k + carry
         IN  <<p % BigBase>> \o BigMulCarry(Tail(a), k, p \div BigBase)

RECURSIVE BigTrim(_)
BigTrim(a) ==
    IF a = <<>> THEN <<>>
    ELSE IF a[Len(a)] = 0 THEN BigTrim(SubSeq(a, 1, Len(a) - 1)) ELSE a

BigMulSmall(a, k) == BigTrim(BigMulCarry(a, k, 0))

RECURSIVE BigPow(_, _)
BigPow(b, e) == IF e = 0 THEN <<1>> ELSE BigMulSmall(BigPow(b, e - 1), b)

RECURSIVE BigPredRaw(_)
BigPredRaw(a) ==
    IF Head(a) > 0
    THEN <<Head(a) - 1>> \o Tail(a)
    ELSE <<BigBase - 1>> \o BigPredRaw(Tail(a))

\* a - 1, for a > 0
BigPred(a) == BigTrim(BigPredRaw(a))

(* ------------------------------ addresses ------------------------------ *)
\* an address argument: its 40 hex digits lower-cased (hex), the number of
\* hex digits it was given with (len) and the letter case it was typed in
Addr(h, c) == [hex |-> h, len |-> 40, case |-> c]

ZeroHex == "0000000000000000000000000000000000000000"

\* eth_utils: any 40-digit hex string is accepted whatever its case
IsAddress(a) == a.len = 40

\* Web3.to_checksum_address: the EIP-55 form of a well-formed address, and
\* a ValueError (None here) for anything else
ToChecksumAddress(a) ==
    IF IsAddress(a) THEN Some([hex |-> a.hex, len |-> 40, case |-> "checksum"])
    ELSE None

\* the literal on lines 88 and 124
WETH_LITERAL == Addr("c02aaa39b223fe8d0a0e5c4f27ead9083c756cc2", "mixed")

(* ------------------------------ registry ------------------------------- *)
SUPPORTED_DEXES ==
    [uniswap_v2 |->
        [router |-> Addr("7a250d5630b4cf539739df2c5dacb4c659f2488d", "mixed"),
         name   |-> "Uniswap V2",
         weth   |-> Addr("c02aaa39b223fe8d0a0e5c4f27ead9083c756cc2", "mixed")],
     sushiswap |->
        [router |-> Addr("d9e1ce17f2641f24ae83637ab66a2cca9c378b9f", "mixed"),
         name   |-> "SushiSwap",
         weth   |-> Addr("c02aaa39b223fe8d0a0e5c4f27ead9083c756cc2", "mixed")],
     pancakeswap |->
        [router |-> Addr("10ed43c718714eb63d5aa57b78b54704e256024e", "mixed"),
         name   |-> "PancakeSwap",
         weth   |-> Addr("bb4cdb9cbd36b01bd1cbaebf2de08d9173bc095c", "mixed")]]

\* any network taken, the unknown ones falling to the second branch
AnyNetwork == {"ethereum", "bsc", "solana"}

\* the branches of lines 30-35
SupportedNetworks == {"ethereum", "bsc"}

\* the provider URL setting __init__ reads for a network
ProviderFor(network) == IF network = "ethereum" THEN "INFURA_URL" ELSE "BSC_NODE_URL"

\* dex not in self.SUPPORTED_DEXES
DexSupported(dex) == dex \in DOMAIN SUPPORTED_DEXES

\* Account.from_key(PRIVATE_KEY).address
ACCOUNT == Addr("a11ce00000000000000000000000000000000001", "checksum")

(* ----------------------------- conversions ----------------------------- *)
\* a decimal amount argument: mant * 10^exp, with exp in -18..0
Dec(m, e) == [mant |-> m, exp |-> e]

\* Web3.to_wei(amount, 'ether'): amount * 10^18 as an integer
to_wei(amount) == BigMulSmall(BigPow(10, 18 + amount.exp), amount.mant)

\* Web3.from_wei(wei, 'ether'): the decimal wei * 10^-18
from_wei(wei) == [digits |-> wei, exp |-> -18]

\* 2**256 - 1, with 2**256 computed as (2**16)**16
MAX_APPROVAL == BigPred(BigPow(2 ^ 16, 16))

SWAP_GAS == 250000
APPROVE_GAS == 100000
DEADLINE_SECONDS == 300

(* ------------------------------- session ------------------------------- *)
NoSession ==
    [status |-> "none", args |-> None, error |-> None, w3 |-> None, account |-> None,
     current_dex |-> None, router_address |-> None, weth_address |-> None,
     router_contract |-> None]

\* __init__ run to its end or to its first raise; env tells which settings
\* and files exist.  A raise leaves the caller without an instance.
NewSessionFrom(dex, network, env) ==
    IF network \notin SupportedNetworks
    THEN [NoSession EXCEPT !.status = "failed", !.error = Some("ValueError: network")]
    ELSE IF ~env.url \/ ~env.key
    THEN [NoSession EXCEPT !.status = "failed", !.error = Some("UndefinedValueError")]
    ELSE IF ~DexSupported(dex)
    THEN [NoSession EXCEPT !.status = "failed", !.error = Some("ValueError: dex")]
    ELSE IF ~env.abi
    THEN [NoSession EXCEPT !.status = "failed", !.error = Some("FileNotFoundError")]
    ELSE [status |-> "ready", args |-> None, error |-> None,
          w3 |-> Some(ProviderFor(network)),
          account |-> Some(ACCOUNT),
          current_dex |-> Some(dex),
          router_address |-> ToChecksumAddress(SUPPORTED_DEXES[dex].router),
          weth_address |-> ToChecksumAddress(SUPPORTED_DEXES[dex].weth),
          router_contract |->
              Some([address |-> ToChecksumAddress(SUPPORTED_DEXES[dex].router)[1],
                    abi |-> dex])]

\* the instance (or the raise) together with the arguments of the call
NewSession(dex, network, env) ==
    [NewSessionFrom(dex, network, env) EXCEPT
        !.args = Some([dex |-> dex, network |-> network])]

Envs == [url : BOOLEAN, key : BOOLEAN, abi : BOOLEAN]

Construct(dexArgs, networkArgs) ==
    /\ session.status = "none"
    /\ \E dex \in dexArgs, network \in networkArgs, env \in Envs :
          session' = NewSession(dex, network, env)
    /\ UNCHANGED <<blockTime, gasPrice, txCount, allowance, frame, calls>>

(* ---------------------------- swap building ---------------------------- *)
\* buy_token's path (ETH -> Token)
BuyPath(token_address) == <<ToChecksumAddress(WETH_LITERAL)[1], token_address>>

\* sell_token's path (Token -> ETH)
SellPath(token_address) == <<token_address, ToChecksumAddress(WETH_LITERAL)[1]>>

\* a deadline computed from a timestamp kept from the session's start
DeadlineCached(timestamp) == 0 + DEADLINE_SECONDS

\* get_block('latest').timestamp + 300
Deadline(timestamp) == timestamp + DEADLINE_SECONDS

(* ---------------------------- call frames ------------------------------ *)
\* one frame per caller: the locals of the method it is running
IdleFrame ==
    [pc |-> "idle", op |-> "none", arg |-> None, amount |-> None,
     token_address |-> None, timestamp |-> None, deadline |-> None,
     gas_price |-> None,
     transaction |-> None, signed_txn |-> None, tx_hash |-> None,
     rpc |-> <<>>, result |-> None, error |-> None]

Finished == {"idle", "returned", "raised"}

\* a rejected submission sent again with a fresh gas price
RaiseOrResubmit(f, e) ==
    IF e = "SubmissionError" THEN [f EXCEPT !.pc = "gas_price"]
    ELSE [f EXCEPT !.pc = "raised", !.error = Some(e)]

Raise(f, e) == [f EXCEPT !.pc = "raised", !.error = Some(e)]

Return(f, v) == [f EXCEPT !.pc = "returned", !.result = v]

Swaps == {"buy", "sell"}
Senders == {"buy", "sell", "approve"}

\* a sell refused while the router holds no approval of the token
EnterGated(op, arg, amount, erc20_abi) ==
    LET f == [IdleFrame EXCEPT !.op = op, !.arg = Some(arg),
                               !.amount = IF op = "approve" THEN None ELSE Some(amount)]
        a == ToChecksumAddress(arg)
    IN  IF a = None THEN [f EXCEPT !.pc = "raised", !.error = Some("ValueError")]
        ELSE IF op = "price" THEN [f EXCEPT !.token_address = a, !.pc = "call"]
        ELSE IF op = "sell" /\ <<a[1].hex, session.router_address[1].hex>> \notin allowance
        THEN [f EXCEPT !.token_address = a, !.pc = "raised", !.error = Some("NotApproved")]
        ELSE IF op \in Swaps THEN [f EXCEPT !.token_address = a, !.pc = "get_block"]
        ELSE IF ~erc20_abi
        THEN [f EXCEPT !.token_address = a, !.pc = "raised", !.error = Some("FileNotFoundError")]
        ELSE [f EXCEPT !.token_address = a, !.pc = "gas_price"]

\* the first lines of a method, up to its first chain call (approve_token
\* takes no amount)
Enter(op, arg, amount, erc20_abi) ==
    LET f == [IdleFrame EXCEPT !.op = op, !.arg = Some(arg),
                               !.amount = IF op = "approve" THEN None ELSE Some(amount)]
        a == ToChecksumAddress(arg)
    IN  IF a = None THEN Raise(f, "ValueError")
        ELSE IF op = "price" THEN [f EXCEPT !.token_address = a, !.pc = "call"]
        ELSE IF op \in Swaps THEN [f EXCEPT !.token_address = a, !.pc = "get_block"]
        ELSE IF ~erc20_abi THEN Raise([f EXCEPT !.token_address = a], "FileNotFoundError")
        ELSE [f EXCEPT !.token_address = a, !.pc = "gas_price"]

Invoke(t, ops, tokenArgs, amountArgs) ==
    /\ session.status = "ready"
    /\ frame[t].pc \in Finished
    /\ calls < MaxCalls
    /\ \E op \in ops, arg \in tokenArgs, amount \in amountArgs, erc20_abi \in BOOLEAN :
          frame' = [frame EXCEPT ![t] = Enter(op, arg, amount, erc20_abi)]
    /\ calls' = calls + 1
    /\ UNCHANGED <<session, blockTime, gasPrice, txCount, allowance>>

(* ----------------------------- chain client ---------------------------- *)
GasPrices == {20, 35}

\* a client that hands each call in flight a nonce of its own
get_transaction_count_reserved(address) ==
    txCount + Cardinality({t \in DOMAIN frame : frame[t].pc \in {"sign", "send"}})

\* w3.eth.get_transaction_count(address): the account's current count
get_transaction_count(address) == txCount

\* w3.eth.gas_price
gas_price == gasPrice

\* w3.eth.get_block('latest').timestamp
latest_timestamp == blockTime

\* a new block: time moves on and the network's gas price may change
NewBlock ==
    /\ blockTime < MaxTime
    /\ blockTime' = blockTime + 1
    /\ gasPrice' \in GasPrices
    /\ UNCHANGED <<session, txCount, allowance, frame, calls>>

(* ------------------------- transaction building ------------------------ *)
\* the arguments of swapExactETHForTokens, lines 93-98
BuyArgs(token, account, deadline) == <<0, BuyPath(token), account, deadline>>

\* a sell that asks for at least one unit out
SellArgsWithFloor(amount_tokens, token, account, deadline) ==
    <<amount_tokens, 1, SellPath(token), account, deadline>>

\* the arguments of swapExactTokensForETH, lines 128-134
SellArgs(amount_tokens, token, account, deadline) ==
    <<amount_tokens, 0, SellPath(token), account, deadline>>

\* an approval of one whole token only
ApproveArgsOneToken(router_address) == <<router_address, to_wei(Dec(1, 0))>>

\* the arguments of approve, lines 163-166
ApproveArgs(router_address) == <<router_address, MAX_APPROVAL>>

\* the value of a buy copied into a sell
TxValueOfAnySwap(f) == IF f.op \in {"buy", "sell"} THEN to_wei(f.amount[1]) ELSE BigOfNat(0)

\* 'value': line 100 for a buy; the other two give none and web3 fills in 0
TxValue(f) == IF f.op = "buy" THEN to_wei(f.amount[1]) ELSE BigOfNat(0)

\* <contract function>(...).build_transaction({...}) of the three senders
BuildTransaction(f, nonce) ==
    LET account == session.account[1]
        token   == f.token_address[1]
    IN  IF f.op = "buy" THEN
            [to |-> session.router_contract[1].address,
             fn |-> "swapExactETHForTokens",
             args |-> BuyArgs(token, account, f.deadline[1]),
             from |-> account,
             value |-> TxValue(f),
             gas |-> SWAP_GAS,
             gasPrice |-> f.gas_price[1],
             nonce |-> nonce]
        ELSE IF f.op = "sell" THEN
            [to |-> session.router_contract[1].address,
             fn |-> "swapExactTokensForETH",
             args |-> SellArgs(f.amount[1], token, account, f.deadline[1]),
             from |-> account,
             value |-> TxValue(f),
             gas |-> SWAP_GAS,
             gasPrice |-> f.gas_price[1],
             nonce |-> nonce]
        ELSE
            [to |-> token,
             fn |-> "approve",
             args |-> ApproveArgs(session.router_address[1]),
             from |-> account,
             value |-> TxValue(f),
             gas |-> APPROVE_GAS,
             gasPrice |-> f.gas_price[1],
             nonce |-> nonce]

Did(f, step) == [f EXCEPT !.rpc = Append(f.rpc, step)]

(* ------------------------- the steps of a call ------------------------- *)
\* lines 84, 119
GetBlock(t) ==
    /\ frame[t].pc = "get_block"
    /\ \E ok \in BOOLEAN :
          LET f == Did(frame[t], "get_block")
          IN  frame' = [frame EXCEPT ![t] =
                  IF ok THEN LET timestamp == latest_timestamp
                             IN  [f EXCEPT !.timestamp = Some(timestamp),
                                           !.deadline = Some(Deadline(timestamp)),
                                           !.pc = "gas_price"]
                  ELSE Raise(f, "ChainQueryError")]
    /\ UNCHANGED <<session, blockTime, gasPrice, txCount, allowance, calls>>

\* lines 102, 137, 169
GasPrice(t) ==
    /\ frame[t].pc = "gas_price"
    /\ \E ok \in BOOLEAN :
          LET f == Did(frame[t], "gas_price")
          IN  frame' = [frame EXCEPT ![t] =
                  IF ok THEN [f EXCEPT !.gas_price = Some(gas_price),
                                       !.pc = "get_transaction_count"]
                  ELSE Raise(f, "ChainQueryError")]
    /\ UNCHANGED <<session, blockTime, gasPrice, txCount, allowance, calls>>

\* lines 103, 138, 170, and build_transaction with the finished dict
GetTransactionCount(t) ==
    /\ frame[t].pc = "get_transaction_count"
    /\ \E ok \in BOOLEAN :
          LET f == Did(frame[t], "get_transaction_count")
          IN  frame' = [frame EXCEPT ![t] =
                  IF ok THEN [f EXCEPT
                         !.transaction =
                             Some(BuildTransaction(f, get_transaction_count(session.account[1]))),
                         !.pc = "sign"]
                  ELSE Raise(f, "ChainQueryError")]
    /\ UNCHANGED <<session, blockTime, gasPrice, txCount, allowance, calls>>

\* lines 107, 142, 174
SignTransaction(t) ==
    /\ frame[t].pc = "sign"
    /\ \E ok \in BOOLEAN :
          LET f == Did(frame[t], "sign_transaction")
          IN  frame' = [frame EXCEPT ![t] =
                  IF ok THEN [f EXCEPT
                         !.signed_txn = Some([rawTransaction |-> f.transaction[1],
                                              signer |-> session.account[1]]),
                         !.pc = "send"]
                  ELSE Raise(f, "SigningError")]
    /\ UNCHANGED <<session, blockTime, gasPrice, txCount, allowance, calls>>

\* the node takes a raw transaction whose nonce is the account's count
NodeAccepts(tx) == tx.nonce = txCount

\* the statuses a mined transaction can end with: a swap of tokens the
\* router was never approved for reverts
Statuses(tx) ==
    IF tx.fn = "swapExactTokensForETH" /\ <<tx.args[3][1].hex, tx.to.hex>> \notin allowance
    THEN {0} ELSE {0, 1}

\* lines 108, 143, 175
SendRawTransaction(t) ==
    /\ frame[t].pc = "send"
    /\ \E ok \in BOOLEAN :
          LET f  == Did(frame[t], "send_raw_transaction")
              tx == f.signed_txn[1].rawTransaction
          IN  IF ok /\ NodeAccepts(tx)
              THEN /\ frame' = [frame EXCEPT ![t] =
                          [f EXCEPT !.tx_hash = Some([from |-> tx.from.hex, nonce |-> tx.nonce]),
                                    !.pc = "wait"]]
                   /\ txCount' = txCount + 1
                   /\ allowance' = IF tx.fn = "approve"
                                   THEN allowance \cup {<<tx.to.hex, tx.args[1].hex>>}
                                   ELSE allowance
              ELSE /\ frame' = [frame EXCEPT ![t] = Raise(f, "SubmissionError")]
                   /\ UNCHANGED <<txCount, allowance>>
    /\ UNCHANGED <<session, blockTime, gasPrice, calls>>

\* lines 110, 145, 177
WaitForReceipt(t) ==
    /\ frame[t].pc = "wait"
    /\ \E ok \in BOOLEAN :
          LET f == Did(frame[t], "wait_for_transaction_receipt")
          IN  \E status \in Statuses(f.transaction[1]) :
                 frame' = [frame EXCEPT ![t] =
                     IF ok THEN Return(f, Some([transactionHash |-> f.tx_hash[1],
                                                status |-> status]))
                     ELSE Raise(f, "ConfirmationTimeoutError")]
    /\ UNCHANGED <<session, blockTime, gasPrice, txCount, allowance, calls>>

\* what getAmountsOut(...).call() can give: a failure (None) or both amounts
Quotes == {BigOfNat(0), to_wei(Dec(2, -3))}

\* lines 65-75: the try block of get_token_price
RouterCall(t) ==
    /\ frame[t].pc = "call"
    /\ \E out \in {None} \cup {Some(q) : q \in Quotes} :
          LET f        == Did(frame[t], "call")
              amountIn == to_wei(f.amount[1])
              path     == <<f.token_address[1], session.weth_address[1]>>
              amounts  == <<amountIn, out[1]>>
          IN  frame' = [frame EXCEPT ![t] =
                  IF out = None THEN Return(f, None)
                  ELSE Return(f, Some(from_wei(amounts[2])))]
    /\ UNCHANGED <<session, blockTime, gasPrice, txCount, allowance, calls>>

(* --------------------------- specifications ---------------------------- *)
InitWith(threads) ==
    /\ session = NoSession
    /\ blockTime = 0
    /\ gasPrice \in GasPrices
    /\ txCount = 0
    /\ allowance = {}
    /\ frame = [t \in threads |-> IdleFrame]
    /\ calls = 0

Ops == {"price", "buy", "sell", "approve"}

DexArgs == {"uniswap_v2", "sushiswap", "pancakeswap", "shibaswap"}
NetworkArgs == {"ethereum", "bsc", "solana"}

TokenArgs ==
    {Addr("6982508145454ce325ddbe47a25d4ec3d2311933", "lower"),
     Addr("6982508145454ce325ddbe47a25d4ec3d2311933", "checksum"),
     Addr("95ad61b0a150d79219dcf64e1e6cc01f0b64c4ce", "upper"),
     [hex |-> "6982508145454ce325ddbe47a25d4ec3d231193", len |-> 39, case |-> "lower"]}

AmountArgs == {Dec(1, 0), Dec(5, -1)}

\* one caller, every supported and unsupported configuration
Init == InitWith({1})

NextWith(dexArgs, networkArgs, ops, tokenArgs, amountArgs) ==
    \/ Construct(dexArgs, networkArgs)
    \/ \E t \in DOMAIN frame : Invoke(t, ops, tokenArgs, amountArgs)
    \/ \E t \in DOMAIN frame : GetBlock(t)
    \/ \E t \in DOMAIN frame : GasPrice(t)
    \/ \E t \in DOMAIN frame : GetTransactionCount(t)
    \/ \E t \in DOMAIN frame : SignTransaction(t)
    \/ \E t \in DOMAIN frame : SendRawTransaction(t)
    \/ \E t \in DOMAIN frame : WaitForReceipt(t)
    \/ \E t \in DOMAIN frame : RouterCall(t)
    \/ NewBlock

Next == NextWith(DexArgs, NetworkArgs, Ops, TokenArgs, AmountArgs)

Spec == Init /\ [][Next]_vars

\* several callers sharing one session and one account
ConcDexArgs == {"sushiswap", "shibaswap"}
ConcNetworkArgs == {"ethereum"}
ConcTokenArgs == {Addr("6982508145454ce325ddbe47a25d4ec3d2311933", "lower")}
ConcAmountArgs == {Dec(1, 0)}

InitConc == InitWith(1 .. NumThreads)

NextConc ==
    \/ Construct(ConcDexArgs, ConcNetworkArgs)
    \/ \E t \in DOMAIN frame : Invoke(t, Senders, ConcTokenArgs, ConcAmountArgs)
    \/ \E t \in DOMAIN frame : GetBlock(t)
    \/ \E t \in DOMAIN frame : GasPrice(t)
    \/ \E t \in DOMAIN frame : GetTransactionCount(t)
    \/ \E t \in DOMAIN frame : SignTransaction(t)
    \/ \E t \in DOMAIN frame : SendRawTransaction(t)
    \/ \E t \in DOMAIN frame : WaitForReceipt(t)

SpecConc == InitConc /\ [][NextConc]_vars

\* two callers swapping while blocks arrive
InitTime == InitWith({1, 2})

NextTime ==
    \/ Construct(ConcDexArgs, ConcNetworkArgs)
    \/ \E t \in DOMAIN frame : Invoke(t, Swaps, ConcTokenArgs, ConcAmountArgs)
    \/ \E t \in DOMAIN frame : GetBlock(t)
    \/ \E t \in DOMAIN frame : GasPrice(t)
    \/ \E t \in DOMAIN frame : GetTransactionCount(t)
    \/ \E t \in DOMAIN frame : SignTransaction(t)
    \/ \E t \in DOMAIN frame : SendRawTransaction(t)
    \/ \E t \in DOMAIN frame : WaitForReceipt(t)
    \/ NewBlock

SpecTime == InitTime /\ [][NextTime]_vars

(* ------------------------------ properties ----------------------------- *)
Frames == {frame[t] : t \in DOMAIN frame}

Built(f) == f.transaction # None

PathOf(tx) == IF tx.fn = "swapExactETHForTokens" THEN tx.args[2] ELSE tx.args[3]

\* C1: the path of every built swap has 2 elements and is [wrapped-native
\* address configured for the session's DEX, token] for a buy and
\* [token, that wrapped-native address] for a sell.
C1_PathUsesConfiguredWrappedNative ==
    \A f \in Frames :
        (Built(f) /\ f.op \in Swaps) =>
            LET path == PathOf(f.transaction[1])
                weth == ToChecksumAddress(SUPPORTED_DEXES[session.current_dex[1]].weth)[1]
            IN  /\ Len(path) = 2
                /\ f.op = "buy" => path = <<weth, f.token_address[1]>>
                /\ f.op = "sell" => path = <<f.token_address[1], weth>>

\* C2: a price query never raises to its caller: whatever fails, the call
\* returns (an absent result, or the quote when the query succeeded).
C2_GetPriceNeverRaises ==
    \A f \in Frames : f.op = "price" => f.pc # "raised"

\* a call that has read its nonce and built its transaction but has not
\* yet handed it to the node
Unsent(f) == f.pc \in {"sign", "send"}

\* a call whose transaction the node took
Accepted(f) == f.tx_hash # None

\* C3: calls on one account are not serialized.  While another call holds a
\* built, unsubmitted transaction carrying the account's current count, a
\* call that reads its nonce is given that same count, so both transactions
\* carry the identical nonce; and of two calls carrying the identical nonce
\* the chain accepts at most one.
C3_ConcurrentCallsShareNonce ==
    /\ [][\A t, u \in DOMAIN frame :
            ( /\ t # u
              /\ Unsent(frame[u])
              /\ frame[u].transaction[1].nonce = txCount
              /\ frame[t].pc = "get_transaction_count"
              /\ frame'[t].pc = "sign" )
            => frame'[t].transaction[1].nonce = frame[u].transaction[1].nonce]_vars
    /\ [](\A t, u \in DOMAIN frame :
            ( /\ t # u
              /\ Accepted(frame[t])
              /\ Accepted(frame[u]) )
            => frame[t].transaction[1].nonce # frame[u].transaction[1].nonce)

\* two calls hold built, unsubmitted transactions with the identical nonce
C3_Witness ==
    \E t, u \in DOMAIN frame :
        /\ t # u
        /\ Unsent(frame[t])
        /\ Unsent(frame[u])
        /\ frame[t].transaction[1].nonce = frame[u].transaction[1].nonce

DeadlineOf(tx) == IF tx.fn = "swapExactETHForTokens" THEN tx.args[4] ELSE tx.args[5]

MinimumOutputOf(tx) == IF tx.fn = "swapExactETHForTokens" THEN tx.args[1] ELSE tx.args[2]

RecipientOf(tx) == IF tx.fn = "swapExactETHForTokens" THEN tx.args[3] ELSE tx.args[4]

ReadsBlock(t) == frame[t].pc = "get_block" /\ frame'[t].pc = "gas_price"

ReadsGasPrice(t) == frame[t].pc = "gas_price" /\ frame'[t].pc = "get_transaction_count"

ReadsNonce(t) == frame[t].pc = "get_transaction_count" /\ frame'[t].pc = "sign"

\* C4: the deadline of every buy and sell is the block timestamp the chain
\* has when that call fetches it, plus 300; the built transaction carries
\* that deadline; and of two calls, the one that observed the later
\* timestamp has the strictly later deadline.
C4_DeadlineIsFreshTimestampPlus300 ==
    /\ [][\A t \in DOMAIN frame :
            ReadsBlock(t) => /\ frame'[t].timestamp = Some(blockTime)
                             /\ frame'[t].deadline = Some(blockTime + 300)]_vars
    /\ [](\A f \in Frames :
            (Built(f) /\ f.op \in Swaps) =>
                DeadlineOf(f.transaction[1]) = f.timestamp[1] + 300)
    /\ [](\A f, g \in Frames :
            ( /\ Built(f) /\ f.op \in Swaps
              /\ Built(g) /\ g.op \in Swaps
              /\ f.timestamp[1] < g.timestamp[1] ) =>
                DeadlineOf(f.transaction[1]) < DeadlineOf(g.transaction[1]))

\* two swaps are built, the second after a later block than the first
C4_Witness ==
    \E f, g \in Frames :
        /\ Built(f)
        /\ Built(g)
        /\ f.timestamp[1] < g.timestamp[1]
        /\ DeadlineOf(g.transaction[1]) = MaxTime + 300

\* C5: every built transaction carries the gas price and the account's
\* transaction count that the chain had when this call read them, and
\* from = the session account; value is the native amount in wei for a buy
\* (1 ether = 10^18, 0.5 ether = 5 * 10^17) and zero for a sell; the gas
\* limit of both swaps is 250000.
C5_TransactionFieldsFromThisCall ==
    /\ [][\A t \in DOMAIN frame :
            ReadsGasPrice(t) => frame'[t].gas_price = Some(gasPrice)]_vars
    /\ [][\A t \in DOMAIN frame :
            ReadsNonce(t) =>
                /\ frame'[t].transaction[1].nonce = txCount
                /\ frame'[t].transaction[1].gasPrice = frame[t].gas_price[1]]_vars
    /\ [](\A f \in Frames :
            Built(f) =>
                LET tx == f.transaction[1]
                IN  /\ tx.from = session.account[1]
                    /\ tx.gasPrice = f.gas_price[1]
                    /\ (f.op = "buy" /\ f.amount[1] = Dec(1, 0)) =>
                           tx.value = <<0, 0, 0, 0, 100>>
                    /\ (f.op = "buy" /\ f.amount[1] = Dec(5, -1)) =>
                           tx.value = <<0, 0, 0, 0, 50>>
                    /\ f.op = "sell" => tx.value = <<>>
                    /\ f.op \in Swaps => tx.gas = 250000)

\* a second call's sell is built after the first call's transaction was
\* taken: its nonce is 1
C5_Witness ==
    \E f \in Frames :
        /\ Built(f)
        /\ f.op = "sell"
        /\ f.transaction[1].nonce = 1
        /\ f.transaction[1].value = <<>>

\* 2^256 - 1 = 115792089237316195423570985008687907853269984665640564039457584007913129639935
UINT256_MAX_LIMBS ==
    <<9935, 2963, 9131, 4007, 5758, 394, 564, 6564, 9846, 3269,
      785, 6879, 5008, 7098, 4235, 6195, 3731, 892, 5792, 11>>

\* C6: every built approval calls approve on the given token contract with
\* spender = the session's router address and amount = 2^256 - 1, with gas
\* limit 100000, whatever the token and the DEX.
C6_ApprovalIsUnlimitedForRouter ==
    \A f \in Frames :
        (Built(f) /\ f.op = "approve") =>
            LET tx == f.transaction[1]
            IN  /\ tx.to = [hex |-> f.arg[1].hex, len |-> 40, case |-> "checksum"]
                /\ tx.fn = "approve"
                /\ tx.args = <<session.router_address[1], UINT256_MAX_LIMBS>>
                /\ tx.args[1].hex = SUPPORTED_DEXES[session.args[1].dex].router.hex
                /\ tx.gas = 100000

\* an approval is built on the BSC exchange
C6_Witness ==
    \E f \in Frames :
        /\ Built(f)
        /\ f.op = "approve"
        /\ session.current_dex = Some("pancakeswap")
        /\ f.arg[1].case = "upper"

\* C7: the minimum-output argument of every built swap is 0 and its
\* recipient is the session's own account.
C7_NoSlippageProtection ==
    \A f \in Frames :
        (Built(f) /\ f.op \in Swaps) =>
            /\ MinimumOutputOf(f.transaction[1]) = 0
            /\ RecipientOf(f.transaction[1]) = session.account[1]

\* a sell of 0.5 tokens is built after a block arrived
C7_Witness ==
    \E f \in Frames :
        /\ Built(f)
        /\ f.op = "sell"
        /\ f.amount = Some(Dec(5, -1))
        /\ f.timestamp = Some(MaxTime)

\* C8: construction gives a client only for a DEX of the registry and a
\* supported network.  For any other DEX or network it ends in an error and
\* leaves no router address and no router contract; a client that was built
\* holds the checksummed, non-zero router and wrapped-native addresses the
\* registry has for its DEX.
C8_ConstructionOnlyForKnownDexAndNetwork ==
    session.status # "none" =>
        LET a == session.args[1]
            known == /\ a.dex \in {"uniswap_v2", "sushiswap", "pancakeswap"}
                     /\ a.network \in {"ethereum", "bsc"}
        IN  /\ ~known =>
                /\ session.status = "failed"
                /\ session.error # None
                /\ session.router_address = None
                /\ session.weth_address = None
                /\ session.router_contract = None
            /\ session.status = "ready" =>
                /\ known
                /\ session.router_address =
                       Some([hex |-> SUPPORTED_DEXES[a.dex].router.hex,
                             len |-> 40, case |-> "checksum"])
                /\ session.weth_address =
                       Some([hex |-> SUPPORTED_DEXES[a.dex].weth.hex,
                             len |-> 40, case |-> "checksum"])
                /\ session.router_contract[1].address = session.router_address[1]
                /\ session.router_address[1].hex # ZeroHex
                /\ session.weth_address[1].hex # ZeroHex

\* construction was asked for an exchange outside the registry, on a
\* supported network, and failed
C8_Witness ==
    /\ session.status = "failed"
    /\ session.args = Some([dex |-> "shibaswap", network |-> "bsc"])
    /\ session.error = Some("ValueError: dex")

IsPrefix(p, q) == Len(p) <= Len(q) /\ p = SubSeq(q, 1, Len(p))

SwapSteps ==
    <<"get_block", "gas_price", "get_transaction_count", "sign_transaction",
      "send_raw_transaction", "wait_for_transaction_receipt">>

StepsOf(op) == IF op = "approve" THEN Tail(SwapSteps) ELSE SwapSteps

\* C9: a single send is terminal.  The chain steps of a buy, sell or approve
\* are a prefix of: read timestamp (swaps only), read gas price, read nonce,
\* sign, submit, wait for receipt, so at most one raw transaction is
\* submitted; a call that failed carries its error to the caller, gave no
\* result, and takes no further step: nothing is retried or resubmitted.
C9_SingleSendIsTerminal ==
    /\ [](\A f \in Frames :
            f.op \in Senders =>
                /\ IsPrefix(f.rpc, StepsOf(f.op))
                /\ Cardinality({i \in 1 .. Len(f.rpc) : f.rpc[i] = "send_raw_transaction"}) <= 1
                /\ f.pc = "raised" => (f.error # None /\ f.result = None)
                /\ f.pc = "returned" => f.rpc = StepsOf(f.op))
    /\ [][\A t \in DOMAIN frame :
            (frame[t].op \in Senders /\ frame[t].pc = "raised") =>
                \/ frame'[t] = frame[t]
                \/ frame'[t].rpc = <<>>]_vars

\* the node rejected the one submission of a buy, and the call ended there
C9_Witness ==
    \E f \in Frames :
        /\ f.op = "buy"
        /\ f.pc = "raised"
        /\ f.error = Some("SubmissionError")
        /\ f.rpc = SubSeq(SwapSteps, 1, 5)

\* C10: sell is not gated on approval.  A sell with a well-formed token
\* address always reaches its chain steps, those steps never include a
\* query of the allowance, and a signed sell is always handed to the node,
\* whatever approvals exist.
C10_SellNotGatedOnApproval ==
    /\ [](\A f \in Frames :
            f.op = "sell" =>
                /\ (f.pc = "raised" /\ f.rpc = <<>>) => ~IsAddress(f.arg[1])
                /\ \A i \in 1 .. Len(f.rpc) :
                       f.rpc[i] \in {SwapSteps[j] : j \in 1 .. Len(SwapSteps)})
    /\ [][\A t \in DOMAIN frame :
            (frame[t].op = "sell" /\ frame[t].pc = "send" /\ frame'[t] # frame[t]) =>
                frame'[t].rpc = Append(frame[t].rpc, "send_raw_transaction")]_vars

\* the node took a sell although no approval was ever made
C10_Witness ==
    \E f \in Frames :
        /\ f.op = "sell"
        /\ Accepted(f)
        /\ allowance = {}

====
